---- MODULE Spec2Model ----
(***************************************************************************)
(* Stock ledger and sale-transaction consistency of the CURUZA POS client. *)
(*                                                                         *)
(* The store (the hosted database) holds the tables products,              *)
(* inventory_transactions, sales and sale_items.  Every browser session    *)
(* runs the page handlers of Products.tsx and Sales.tsx; a handler is a    *)
(* sequence of store requests separated by awaits, so the requests of two  *)
(* sessions interleave at every await.  Each store request either succeeds *)
(* or returns an error, and a session may be closed while a handler is     *)
(* still running.                                                          *)
(***************************************************************************)
EXTENDS Integers, Sequences, FiniteSets, TLC

\* ------------------------------------------------------------------ bounds
MaxProducts == 2        \* product rows the store can ever hold
MaxQty == 2             \* largest quantity typed into a form
MaxStock == 3           \* largest stock level typed into the edit form
MaxOps == 2             \* handler invocations in one behaviour
MaxItems == 2           \* line items in one sale
InitStock == 2          \* stock of the product the store starts with
MaxPlans == 1           \* purchase plans the store holds

Sessions == {"s1", "s2"}
ProductIds == 1 .. MaxProducts
Names == {"A", "B"}
Customers == {"Ann"}
Quantities == 1 .. MaxQty
Prices == {2}
Discounts == {0}
PlanIds == 1 .. MaxPlans
Statuses == {"draft", "scheduled", "completed", "cancelled"}

\* ------------------------------------------------------------------- state
VARIABLES
    products,       \* table products: id -> row
    next_product_id,\* the next generated product id
    inventory_transactions, \* table inventory_transactions, in insertion order
    sales,          \* table sales, in insertion order
    sale_items,     \* table sale_items, in insertion order
    purchase_plans, \* table purchase_plans: id -> row
    purchase_plan_items, \* table purchase_plan_items, in insertion order
    role,           \* user_roles: the role of each session's user
    currentPlan,    \* each session's selected plan (React state)
    planItems,      \* each session's list of the selected plan's items
    cache,          \* each session's `products` list (React state)
    pc,             \* each session's position in its running handler
    op,             \* the running (or last finished) handler's locals
    initial_stock,  \* history: the stock each product row was inserted with
    stock_writes,   \* history: number of stock writes applied to each row
    faulted,        \* history: some request was failed or some session closed
    nops            \* history: handler invocations so far

vars == << products, next_product_id, inventory_transactions, sales, sale_items,
           purchase_plans, purchase_plan_items, role, currentPlan, planItems,
           cache, pc, op, initial_stock, stock_writes, faulted, nops >>

planner == << purchase_plans, purchase_plan_items, currentPlan, planItems >>

store == << products, next_product_id, inventory_transactions, sales, sale_items,
            initial_stock, stock_writes >>

\* --------------------------------------------------------------- rows
NoProduct == [exists |-> FALSE, name |-> "", current_stock |-> 0]

ProductRow(name, stock) == [exists |-> TRUE, name |-> name, current_stock |-> stock]

Txn(pid, qty, type, notes) ==
    [product_id |-> pid, quantity |-> qty, transaction_type |-> type, notes |-> notes]

SaleItemInput(pid, qty, price, discount) ==
    [product_id |-> pid, quantity |-> qty, price |-> price, discount |-> discount]

\* purchase_plans row; the interface PurchasePlan.
NoPlan == [id |-> 0, name |-> "", status |-> "none", total_cost |-> 0]

PlanRow(id, name, status, total_cost) ==
    [id |-> id, name |-> name, status |-> status, total_cost |-> total_cost]

\* purchase_plan_items row; product_id 0 is null (a free-text item).
PlanItemRow(id, plan, pid, prod_name, qty, unit_price) ==
    [id |-> id, purchase_plan_id |-> plan, product_id |-> pid,
     prod_name |-> prod_name, quantity |-> qty, unit_price |-> unit_price]

NoOp ==
    [kind |-> "none", outcome |-> "none", error |-> "",
     product_id |-> 0, new_id |-> 0, name |-> "", quantity |-> 0, snap |-> 0,
     customer_name |-> "", items |-> << >>, i |-> 0, sale_id |-> 0,
     \* history of what this invocation did
     stock0 |-> [p \in ProductIds |-> 0], writes0 |-> [p \in ProductIds |-> 0],
     store_stock |-> 0, new_stock |-> 0, fault |-> FALSE,
     wrote_product |-> FALSE, wrote_sale |-> FALSE, wrote_items |-> 0,
     wrote_txns |-> << >>, decs |-> << >>,
     \* onDeleteProduct
     sale_count |-> 0, refs_at_delete |-> 0, deleted_txns |-> << >>,
     deleted_product |-> FALSE, cascaded_items |-> 0,
     \* updatePlanStatus
     plan_id |-> 0, plan_name |-> "", status |-> "none", from_status |-> "none",
     plan_items |-> << >>, success_toast |-> FALSE, ignored_errors |-> << >>,
     stock_raised |-> << >>,
     \* handlePlanItemSubmit, handleDeleteItem, handlePlanSubmit
     item |-> PlanItemRow(0, 0, 0, "", 0, 0), wrote_plan |-> FALSE]

\* A handler starts: its locals, with the store's stock levels remembered.
Begin(kind) ==
    [NoOp EXCEPT !.kind = kind, !.outcome = "pending",
                 !.stock0 = [p \in ProductIds |-> products[p].current_stock],
                 !.writes0 = stock_writes]

\* ------------------------------------------------------------------- sums
RECURSIVE SumSeq(_)
SumSeq(s) == IF s = << >> THEN 0 ELSE Head(s) + SumSeq(Tail(s))

Signed(t) == IF t.transaction_type = "in" THEN t.quantity ELSE 0 - t.quantity

Abs(x) == IF x < 0 THEN 0 - x ELSE x

TxnsOf(pid) == SelectSeq(inventory_transactions, LAMBDA t : t.product_id = pid)

\* ------------------------------------------------------------------- Init
Init ==
    /\ products = [p \in ProductIds |->
                     IF p = 1 THEN ProductRow("A", InitStock) ELSE NoProduct]
    /\ next_product_id = 2
    /\ inventory_transactions = << Txn(1, InitStock, "in", "Initial stock") >>
    /\ sales = << >>
    /\ sale_items = << >>
    /\ purchase_plans = [p \in PlanIds |-> NoPlan]
    /\ purchase_plan_items = << >>
    /\ role = [s \in Sessions |-> "admin"]
    /\ currentPlan = [s \in Sessions |-> NoPlan]
    /\ planItems = [s \in Sessions |-> << >>]
    /\ cache = [s \in Sessions |-> products]
    /\ pc = [s \in Sessions |-> "idle"]
    /\ op = [s \in Sessions |-> NoOp]
    /\ initial_stock = [p \in ProductIds |-> IF p = 1 THEN InitStock ELSE 0]
    /\ stock_writes = [p \in ProductIds |-> 0]
    /\ faulted = FALSE
    /\ nops = 0


\* ------------------------------------------------------- store primitives
\* Row-level policy "Allow admins to update products".
CanUpdateProducts(s) == role[s] = "admin"

\* UPDATE products SET current_stock = v WHERE id = pid, as session s.  A row the
\* filter or the policy does not select is left alone and no error is returned.
UpdateStock(s, pid, v) ==
    IF pid \in ProductIds /\ products[pid].exists /\ CanUpdateProducts(s)
    THEN /\ products' = [products EXCEPT ![pid].current_stock = v]
         /\ stock_writes' = [stock_writes EXCEPT ![pid] = @ + 1]
    ELSE UNCHANGED << products, stock_writes >>

\* inventory_transactions.product_id REFERENCES products(id).
CanInsertTxn(pid) == pid \in ProductIds /\ products[pid].exists

InsertTxn(t) == inventory_transactions' = Append(inventory_transactions, t)

\* rpc decrease_stock(p_id, p_quantity): the store's atomic conditional decrement.
CanDecreaseStock(pid, qty) ==
    pid \in ProductIds /\ products[pid].exists /\ products[pid].current_stock >= qty

DecreaseStockError(pid) ==
    IF pid \in ProductIds /\ products[pid].exists THEN "InsufficientStock" ELSE "NotFound"

decrease_stock(pid, qty) ==
    /\ products' = [products EXCEPT ![pid].current_stock = @ - qty]
    /\ stock_writes' = [stock_writes EXCEPT ![pid] = @ + 1]

\* ------------------------------------------------------- handler plumbing
\* The handler reaches its success toast; the page then re-fetches its list.
Succeed(s, o) ==
    /\ pc' = [pc EXCEPT ![s] = "idle"]
    /\ op' = [op EXCEPT ![s] = [o EXCEPT !.outcome = "success"]]
    /\ cache' = [cache EXCEPT ![s] = products']

\* The handler goes on to its next request.
Goto(s, label, o) ==
    /\ pc' = [pc EXCEPT ![s] = label]
    /\ op' = [op EXCEPT ![s] = o]
    /\ UNCHANGED cache

\* The handler's catch block: error toast, nothing is undone, no re-fetch.
Throw(s, err) ==
    /\ pc' = [pc EXCEPT ![s] = "idle"]
    /\ op' = [op EXCEPT ![s].outcome = "error", ![s].error = err]
    /\ UNCHANGED cache

Start(s, label, o) ==
    /\ pc[s] = "idle"
    /\ nops < MaxOps
    /\ nops' = nops + 1
    /\ pc' = [pc EXCEPT ![s] = label]
    /\ op' = [op EXCEPT ![s] = o]
    /\ UNCHANGED << store, role, planner, cache, faulted >>

\* useEffect(() => fetchProducts(), []): the page (re)loads its product list.
fetchProducts(s) ==
    /\ pc[s] = "idle"
    /\ cache' = [cache EXCEPT ![s] = products]
    /\ UNCHANGED << store, role, planner, pc, op, faulted, nops >>

\* ------------------------------------------------- Products.tsx: onSubmit
CreateSubmit(s, name, k) ==
    /\ next_product_id <= MaxProducts
    /\ Start(s, "create_product",
             [Begin("create") EXCEPT !.name = name, !.quantity = k])

CreateInsertProduct(s) ==
    /\ pc[s] = "create_product"
    /\ LET id == next_product_id
           o == [op[s] EXCEPT !.wrote_product = TRUE, !.new_id = id]
       IN /\ id <= MaxProducts
          /\ products' = [products EXCEPT ![id] = ProductRow(o.name, o.quantity)]
          /\ next_product_id' = id + 1
          /\ initial_stock' = [initial_stock EXCEPT ![id] = o.quantity]
          /\ stock_writes' = [stock_writes EXCEPT ![id] = 0]
          /\ IF o.quantity > 0 THEN Goto(s, "create_select", o) ELSE Succeed(s, o)
    /\ UNCHANGED << inventory_transactions, sales, sale_items, role, planner, faulted, nops >>

\* .from("products").select("id").eq("name", data.name).single()
RowsNamed(name) == {p \in ProductIds : products[p].exists /\ products[p].name = name}

CreateSelect(s) ==
    /\ pc[s] = "create_select"
    /\ LET rows == RowsNamed(op[s].name)
       IN IF Cardinality(rows) = 1
          THEN Goto(s, "create_txn", [op[s] EXCEPT !.product_id = CHOOSE p \in rows : TRUE])
          ELSE Throw(s, "TypeError")     \* productData is null
    /\ UNCHANGED << store, role, planner, faulted, nops >>

InitialStockTxn(o) == Txn(o.product_id, o.quantity, "in", "Initial stock")

CreateInsertTxn(s) ==
    /\ pc[s] = "create_txn"
    /\ CanInsertTxn(op[s].product_id)
    /\ LET t == InitialStockTxn(op[s])
       IN /\ InsertTxn(t)
          /\ UNCHANGED << products, stock_writes >>
          /\ Succeed(s, [op[s] EXCEPT !.wrote_txns = Append(@, t)])
    /\ UNCHANGED << next_product_id, sales, sale_items, initial_stock, role, planner, faulted, nops >>


\* --------------------------------------------- Products.tsx: onEditSubmit
\* editingProduct is the row of the session's list the dialog was opened on.
EditSubmit(s, pid, n) ==
    /\ cache[s][pid].exists
    /\ Start(s, "edit_update",
             [Begin("edit") EXCEPT !.product_id = pid, !.quantity = n,
                                   !.snap = cache[s][pid].current_stock])

\* stockDifference = parseInt(data.current_stock) - editingProduct.current_stock
stockDifference(o) == o.quantity - o.snap

EditUpdate(s) ==
    /\ pc[s] = "edit_update"
    /\ LET o == [op[s] EXCEPT !.store_stock = products[op[s].product_id].current_stock,
                              !.new_stock = op[s].quantity]
       IN /\ UpdateStock(s, o.product_id, o.quantity)
          /\ IF stockDifference(o) # 0 THEN Goto(s, "edit_txn", o) ELSE Succeed(s, o)
    /\ UNCHANGED << next_product_id, inventory_transactions, sales, sale_items,
                    initial_stock, role, planner, faulted, nops >>

EditTxn(o) ==
    Txn(o.product_id, Abs(stockDifference(o)),
        IF stockDifference(o) > 0 THEN "in" ELSE "out",
        "Stock adjustment during product edit")

EditInsertTxn(s) ==
    /\ pc[s] = "edit_txn"
    /\ CanInsertTxn(op[s].product_id)
    /\ InsertTxn(EditTxn(op[s]))
    /\ UNCHANGED << products, stock_writes >>
    /\ Succeed(s, [op[s] EXCEPT !.wrote_txns = Append(@, EditTxn(op[s]))])
    /\ UNCHANGED << next_product_id, sales, sale_items, initial_stock, role, planner, faulted, nops >>

\* ------------------------------------------- Products.tsx: onRefillSubmit
\* refillProduct is the row of the session's list the dialog was opened on.
RefillSubmit(s, pid, q) ==
    /\ cache[s][pid].exists
    /\ Start(s, "refill_update",
             [Begin("refill") EXCEPT !.product_id = pid, !.quantity = q,
                                     !.snap = cache[s][pid].current_stock])

\* current_stock: refillProduct.current_stock + quantity
RefillStock(o) == o.snap + o.quantity

RefillUpdate(s) ==
    /\ pc[s] = "refill_update"
    /\ LET o == [op[s] EXCEPT !.store_stock = products[op[s].product_id].current_stock,
                              !.new_stock = RefillStock(op[s])]
       IN /\ UpdateStock(s, o.product_id, RefillStock(o))
          /\ Goto(s, "refill_txn", o)
    /\ UNCHANGED << next_product_id, inventory_transactions, sales, sale_items,
                    initial_stock, role, planner, faulted, nops >>

RefillInsertTxn(s) ==
    /\ pc[s] = "refill_txn"
    /\ CanInsertTxn(op[s].product_id)
    /\ LET t == Txn(op[s].product_id, op[s].quantity, "in", "Stock refill")
       IN /\ InsertTxn(t)
          /\ UNCHANGED << products, stock_writes >>
          /\ Succeed(s, [op[s] EXCEPT !.wrote_txns = Append(@, t)])
    /\ UNCHANGED << next_product_id, sales, sale_items, initial_stock, role, planner, faulted, nops >>


\* ----------------------------------------------------- Sales.tsx: onSubmit
calculateItemTotalPerUnit(price, quantity, discount) == (price - discount) * quantity

calculateItemTotal(price, quantity, discount) == (price * quantity) - discount

ItemTotal(item) == calculateItemTotal(item.price, item.quantity, item.discount)

ItemDiscount(item) == item.discount

\* The product select lists the session's products with current_stock > 0.
Selectable(s, pid) == cache[s][pid].exists /\ cache[s][pid].current_stock > 0

SaleItemInputs ==
    { SaleItemInput(pid, qty, price, discount) :
        pid \in ProductIds, qty \in Quantities, price \in Prices, discount \in Discounts }

\* saleSchema: at least one item (and at most MaxItems here).
SaleItemLists == UNION { [1 .. n -> SaleItemInputs] : n \in 1 .. MaxItems }

SaleSubmit(s, customer, items) ==
    /\ \A k \in DOMAIN items : Selectable(s, items[k].product_id)
    /\ Start(s, "sale_insert",
             [Begin("sale") EXCEPT !.customer_name = customer, !.items = items])

SaleInsertSale(s) ==
    /\ pc[s] = "sale_insert"
    /\ LET id == Len(sales) + 1
           row == [id |-> id, customer_name |-> op[s].customer_name,
                   total_amount |-> SumSeq([k \in DOMAIN op[s].items |-> ItemTotal(op[s].items[k])]),
                   discount_amount |-> SumSeq([k \in DOMAIN op[s].items |-> ItemDiscount(op[s].items[k])]),
                   created_by |-> s]
       IN /\ sales' = Append(sales, row)
          /\ Goto(s, "sale_items", [op[s] EXCEPT !.sale_id = id, !.wrote_sale = TRUE])
    /\ UNCHANGED << products, next_product_id, inventory_transactions, sale_items,
                    initial_stock, stock_writes, role, planner, faulted, nops >>

\* sale_items.product_id REFERENCES products(id); one insert of all the rows.
SaleInsertItems(s) ==
    /\ pc[s] = "sale_items"
    /\ \A k \in DOMAIN op[s].items : products[op[s].items[k].product_id].exists
    /\ LET rows == [k \in DOMAIN op[s].items |->
                      [sale_id |-> op[s].sale_id,
                       product_id |-> op[s].items[k].product_id,
                       quantity |-> op[s].items[k].quantity,
                       price |-> op[s].items[k].price,
                       discount |-> op[s].items[k].discount]]
       IN /\ sale_items' = sale_items \o rows
          /\ Goto(s, "sale_txn", [op[s] EXCEPT !.wrote_items = Len(rows), !.i = 1])
    /\ UNCHANGED << products, next_product_id, inventory_transactions, sales,
                    initial_stock, stock_writes, role, planner, faulted, nops >>

SaleTxn(o) ==
    Txn(o.items[o.i].product_id, o.items[o.i].quantity, "out", "Sale: " \o o.customer_name)

SaleInsertTxn(s) ==
    /\ pc[s] = "sale_txn"
    /\ CanInsertTxn(op[s].items[op[s].i].product_id)
    /\ InsertTxn(SaleTxn(op[s]))
    /\ Goto(s, "sale_stock", [op[s] EXCEPT !.wrote_txns = Append(@, SaleTxn(op[s]))])
    /\ UNCHANGED << products, next_product_id, sales, sale_items,
                    initial_stock, stock_writes, role, planner, faulted, nops >>

\* A client-side decrement that skips the store's check.
SaleStockWriteUnchecked(s, pid, qty) ==
    /\ pid \in ProductIds /\ products[pid].exists
    /\ decrease_stock(pid, qty)

\* supabase.rpc('decrease_stock', {p_id, p_quantity}) for the current item.
SaleStockWrite(s, pid, qty) ==
    /\ CanDecreaseStock(pid, qty)
    /\ decrease_stock(pid, qty)

SaleDecreaseStock(s) ==
    /\ pc[s] = "sale_stock"
    /\ LET item == op[s].items[op[s].i]
           o == [op[s] EXCEPT !.decs = Append(@, [product_id |-> item.product_id,
                                                  quantity |-> item.quantity,
                                                  at |-> stock_writes[item.product_id]])]
       IN /\ SaleStockWrite(s, item.product_id, item.quantity)
          /\ IF o.i < Len(o.items)
             THEN Goto(s, "sale_txn", [o EXCEPT !.i = @ + 1])
             ELSE Succeed(s, o)
    /\ UNCHANGED << next_product_id, inventory_transactions, sales, sale_items,
                    initial_stock, role, planner, faulted, nops >>

SaleDecreaseStockRefused(s) ==
    /\ pc[s] = "sale_stock"
    /\ ~ CanDecreaseStock(op[s].items[op[s].i].product_id, op[s].items[op[s].i].quantity)
    /\ Throw(s, DecreaseStockError(op[s].items[op[s].i].product_id))
    /\ UNCHANGED << store, role, planner, faulted, nops >>

\* ---------------------------------------------- Products.tsx: onDeleteProduct
\* The trash button of a row of the cached list opens the confirmation dialog.
DeleteSubmit(s, pid) ==
    /\ cache[s][pid].exists
    /\ Start(s, "delete_check", [Begin("delete") EXCEPT !.product_id = pid])

\* .from("sale_items").select("*", {count: "exact", head: true}).eq("product_id", id)
SaleCount(pid) == Len(SelectSeq(sale_items, LAMBDA r : r.product_id = pid))

HasSalesRecordsNever(saleCount) == FALSE

\* if (saleCount && saleCount > 0)
HasSalesRecords(saleCount) == saleCount > 0

\* The sales-history check: "Cannot Delete" and return, or go on to the deletes.
DeleteCheck(s) ==
    /\ pc[s] = "delete_check"
    /\ LET o == [op[s] EXCEPT !.sale_count = SaleCount(op[s].product_id)]
       IN IF HasSalesRecords(o.sale_count)
          THEN /\ pc' = [pc EXCEPT ![s] = "idle"]
               /\ op' = [op EXCEPT ![s] = [o EXCEPT !.outcome = "rejected",
                                                    !.error = "HasSalesHistory"]]
               /\ UNCHANGED cache
          ELSE Goto(s, "delete_txns", o)
    /\ UNCHANGED << store, role, planner, faulted, nops >>

\* DELETE on products and inventory_transactions is open to the administrator.
CanDeleteProducts(s) == role[s] = "admin"

\* .from("inventory_transactions").delete().eq("product_id", id)
DeleteTxns(s) ==
    /\ pc[s] = "delete_txns"
    /\ LET pid == op[s].product_id
           gone == IF CanDeleteProducts(s) THEN TxnsOf(pid) ELSE << >>
       IN /\ inventory_transactions' =
                IF CanDeleteProducts(s)
                THEN SelectSeq(inventory_transactions, LAMBDA t : t.product_id # pid)
                ELSE inventory_transactions
          /\ Goto(s, "delete_product",
                  [op[s] EXCEPT !.refs_at_delete = SaleCount(pid), !.deleted_txns = gone])
    /\ UNCHANGED << products, next_product_id, sales, sale_items, initial_stock,
                    stock_writes, role, planner, faulted, nops >>

CascadeTxnsOff(pid) == inventory_transactions

\* inventory_transactions.product_id REFERENCES products(id) ON DELETE CASCADE
CascadeTxns(pid) == SelectSeq(inventory_transactions, LAMBDA t : t.product_id # pid)

\* .from("products").delete().eq("id", id); the rows of inventory_transactions
\* and sale_items that reference the product go with it (ON DELETE CASCADE).
DeleteProductRow(s) ==
    /\ pc[s] = "delete_product"
    /\ LET pid == op[s].product_id
           hit == CanDeleteProducts(s) /\ products[pid].exists
       IN /\ products' = IF hit THEN [products EXCEPT ![pid] = NoProduct] ELSE products
          /\ inventory_transactions' =
                IF hit THEN CascadeTxns(pid) ELSE inventory_transactions
          /\ sale_items' =
                IF hit THEN SelectSeq(sale_items, LAMBDA r : r.product_id # pid)
                       ELSE sale_items
          /\ Succeed(s, [op[s] EXCEPT !.deleted_product = hit,
                                      !.cascaded_items = IF hit THEN SaleCount(pid) ELSE 0])
    /\ UNCHANGED << next_product_id, sales, initial_stock, stock_writes,
                    role, planner, faulted, nops >>

\* ------------------------------------------------------ PurchasePlanner.tsx
\* The select of fetchPlanItems embeds `product:product_id(id, name)`: the
\* referenced product's id and name, or null for a free-text item.
Null == [null |-> TRUE]

EmbeddedProduct(pid) ==
    IF pid \in ProductIds /\ products[pid].exists
    THEN [id |-> pid, name |-> products[pid].name]
    ELSE Null

PlanItemsOf(plan) == SelectSeq(purchase_plan_items, LAMBDA r : r.purchase_plan_id = plan)

\* The rows of a plan as the page keeps them; the map over the rows throws on
\* a row whose product_id is set but whose product is gone, and the list is
\* then left as it was.
fetchPlanItems(s, plan) ==
    LET rows == PlanItemsOf(plan)
    IN IF \E k \in DOMAIN rows : rows[k].product_id # 0 /\ EmbeddedProduct(rows[k].product_id) = Null
       THEN planItems[s]
       ELSE [k \in DOMAIN rows |->
               [id |-> rows[k].id, product_id |-> rows[k].product_id,
                prod_name |-> IF rows[k].product_id # 0
                              THEN EmbeddedProduct(rows[k].product_id).name
                              ELSE rows[k].prod_name,
                quantity |-> rows[k].quantity, unit_price |-> rows[k].unit_price,
                product |-> EmbeddedProduct(rows[k].product_id)]]

\* A click on a plan of the (re-fetched) list.
handleSelectPlan(s, plan) ==
    /\ pc[s] = "idle"
    /\ purchase_plans[plan].id # 0
    /\ currentPlan' = [currentPlan EXCEPT ![s] = purchase_plans[plan]]
    /\ planItems' = [planItems EXCEPT ![s] = fetchPlanItems(s, plan)]
    /\ UNCHANGED << store, purchase_plans, purchase_plan_items, role, cache, pc, op,
                    faulted, nops >>

\* The status buttons the page renders for the plan it holds.
StatusButtons(status) ==
    IF status = "draft" THEN {"scheduled"}
    ELSE IF status = "scheduled" THEN {"draft", "completed", "cancelled"}
    ELSE {}

updatePlanStatus(s, status) ==
    /\ currentPlan[s].id # 0
    /\ status \in StatusButtons(currentPlan[s].status)
    /\ Start(s, "status_update",
             [Begin("status") EXCEPT !.plan_id = currentPlan[s].id,
                                     !.plan_name = currentPlan[s].name,
                                     !.status = status,
                                     !.plan_items = planItems[s]])

AppliesStockAlways(status) == TRUE

\* if (status === "completed")
AppliesStock(status) == status = "completed"

\* .from("purchase_plans").update({ status }).eq("id", currentPlan.id), then the
\* success toast.
StatusUpdate(s) ==
    /\ pc[s] = "status_update"
    /\ LET id == op[s].plan_id
           o == [op[s] EXCEPT !.from_status = purchase_plans[id].status,
                              !.success_toast = TRUE, !.i = 1]
       IN /\ purchase_plans' = IF purchase_plans[id].id # 0
                               THEN [purchase_plans EXCEPT ![id].status = o.status]
                               ELSE purchase_plans
          /\ IF AppliesStock(o.status) /\ o.plan_items # << >>
             THEN Goto(s, "plan_stock", o)
             ELSE Goto(s, "status_refresh", o)
    /\ UNCHANGED << store, purchase_plan_items, role, currentPlan, planItems,
                    faulted, nops >>

\* item.product.current_stock: the embedded product carries id and name only.
HasStock(item) == "current_stock" \in DOMAIN item.product

\* The stock update of one item.  A free-text item has no product object and
\* the read throws.  Otherwise the sum is not a number and is sent as null:
\* the store refuses it for a row the request selects (current_stock is NOT
\* NULL) and the handler does not look at the result.
PlanStock(s) ==
    /\ pc[s] = "plan_stock"
    /\ LET item == op[s].plan_items[op[s].i]
           pid == item.product_id
       IN IF item.product = Null
          THEN Throw(s, "TypeError") /\ UNCHANGED << products, stock_writes >>
          ELSE IF HasStock(item)
          THEN /\ UpdateStock(s, pid, item.product.current_stock + item.quantity)
               /\ Goto(s, "plan_txn", [op[s] EXCEPT !.stock_raised = Append(@, pid)])
          ELSE /\ UNCHANGED << products, stock_writes >>
               /\ Goto(s, "plan_txn",
                       IF products[pid].exists /\ CanUpdateProducts(s)
                       THEN [op[s] EXCEPT !.ignored_errors = Append(@, "products.update")]
                       ELSE op[s])
    /\ UNCHANGED << next_product_id, inventory_transactions, sales, sale_items,
                    initial_stock, role, planner, faulted, nops >>

PlanTxn(o) ==
    Txn(o.plan_items[o.i].product_id, o.plan_items[o.i].quantity, "in",
        "Purchase from plan: " \o o.plan_name)

\* The 'in' transaction of one item; its result is not looked at either.
PlanInsertTxn(s) ==
    /\ pc[s] = "plan_txn"
    /\ LET t == PlanTxn(op[s])
           ok == CanInsertTxn(t.product_id)
           o == IF ok THEN [op[s] EXCEPT !.wrote_txns = Append(@, t)]
                     ELSE [op[s] EXCEPT !.ignored_errors =
                                            Append(@, "inventory_transactions.insert")]
       IN /\ IF ok THEN InsertTxn(t) ELSE UNCHANGED inventory_transactions
          /\ IF o.i < Len(o.plan_items)
             THEN Goto(s, "plan_stock", [o EXCEPT !.i = @ + 1])
             ELSE Goto(s, "status_refresh", o)
    /\ UNCHANGED << products, next_product_id, sales, sale_items, initial_stock,
                    stock_writes, role, planner, faulted, nops >>

\* .from("purchase_plans").select().eq("id", currentPlan.id).single()
StatusRefresh(s) ==
    /\ pc[s] = "status_refresh"
    /\ pc' = [pc EXCEPT ![s] = "idle"]
    /\ op' = [op EXCEPT ![s].outcome = "success"]
    /\ currentPlan' = [currentPlan EXCEPT ![s] = purchase_plans[op[s].plan_id]]
    /\ UNCHANGED << store, purchase_plans, purchase_plan_items, role, planItems,
                    cache, faulted, nops >>

\* A request of the completion loop, or the final re-select, returns an error:
\* updatePlanStatus reads none of these results and goes on.
PlanRequestFails(s) ==
    /\ pc[s] \in {"plan_stock", "plan_txn", "status_refresh"}
    /\ pc[s] = "plan_stock" => op[s].plan_items[op[s].i].product # Null
    /\ LET o == [op[s] EXCEPT !.fault = TRUE, !.ignored_errors = Append(@, pc[s])]
       IN /\ pc' = [pc EXCEPT ![s] =
                       IF pc[s] = "plan_stock" THEN "plan_txn"
                       ELSE IF pc[s] = "plan_txn" /\ o.i < Len(o.plan_items) THEN "plan_stock"
                       ELSE IF pc[s] = "plan_txn" THEN "status_refresh"
                       ELSE "idle"]
          /\ op' = [op EXCEPT ![s] =
                       IF pc[s] = "plan_txn" /\ o.i < Len(o.plan_items)
                       THEN [o EXCEPT !.i = @ + 1]
                       ELSE IF pc[s] = "status_refresh" THEN [o EXCEPT !.outcome = "success"]
                       ELSE o]
          /\ currentPlan' = IF pc[s] = "status_refresh"
                            THEN [currentPlan EXCEPT ![s] = NoPlan]
                            ELSE currentPlan
    /\ faulted' = TRUE
    /\ UNCHANGED << store, purchase_plans, purchase_plan_items, role, planItems,
                    cache, nops >>

\* ------------------------------------- the items and the fields of a plan
\* sum + item.quantity * item.unit_price over a list of items
PlanCost(items) == SumSeq([k \in DOMAIN items |-> items[k].quantity * items[k].unit_price])

PlanQuantities == {2}

PlanPrices == {1}

PlanNames == {"P", "Q"}

\* The item form: a product of the page's list, or none and a typed name.
ItemForm(s, pid, qty, price) ==
    [product_id |-> pid,
     prod_name |-> IF pid = 0 THEN "Bags" ELSE cache[s][pid].name,
     quantity |-> qty, unit_price |-> price]

\* The "Add Item" and "Edit" buttons and the rows' delete buttons are rendered
\* when currentPlan.status === "draft".
ShowsDraft(s) == currentPlan[s].id # 0 /\ currentPlan[s].status = "draft"

\* handlePlanItemSubmit(data); the row's id is generated: it is the number of
\* this invocation, past the ids of the rows the plan starts with.
handlePlanItemSubmit(s, data) ==
    /\ ShowsDraft(s)
    /\ data.product_id # 0 => cache[s][data.product_id].exists
    /\ Start(s, "item_insert",
             [Begin("item_add") EXCEPT
                 !.plan_id = currentPlan[s].id,
                 !.plan_items = planItems[s],
                 !.item = PlanItemRow(nops + 3, currentPlan[s].id, data.product_id,
                                      data.prod_name, data.quantity, data.unit_price)])

\* .from("purchase_plan_items").insert([newItem])
ItemInsert(s) ==
    /\ pc[s] = "item_insert"
    /\ purchase_plan_items' = Append(purchase_plan_items, op[s].item)
    /\ Goto(s, "item_total",
            [op[s] EXCEPT !.from_status = purchase_plans[op[s].plan_id].status,
                          !.wrote_plan = TRUE])
    /\ UNCHANGED << store, purchase_plans, role, currentPlan, planItems, faulted, nops >>

\* totalCost = planItems.reduce(...) + quantity * unit_price, over the list the
\* page held when the form was submitted.
totalCost(o) == PlanCost(o.plan_items) + o.item.quantity * o.item.unit_price

\* .from("purchase_plans").update({ total_cost: totalCost }).eq("id", currentPlan.id)
ItemUpdateTotal(s) ==
    /\ pc[s] = "item_total"
    /\ purchase_plans' = IF purchase_plans[op[s].plan_id].id # 0
                         THEN [purchase_plans EXCEPT ![op[s].plan_id].total_cost = totalCost(op[s])]
                         ELSE purchase_plans
    /\ Goto(s, "item_refresh", op[s])
    /\ UNCHANGED << store, purchase_plan_items, role, currentPlan, planItems,
                    faulted, nops >>

\* The plan is re-selected and kept, the success toast is shown and the item
\* list is fetched again.
ItemRefresh(s) ==
    /\ pc[s] = "item_refresh"
    /\ currentPlan' = IF purchase_plans[op[s].plan_id].id # 0
                      THEN [currentPlan EXCEPT ![s] = purchase_plans[op[s].plan_id]]
                      ELSE currentPlan
    /\ planItems' = [planItems EXCEPT ![s] = fetchPlanItems(s, op[s].plan_id)]
    /\ Goto(s, "idle", [op[s] EXCEPT !.outcome = "success", !.success_toast = TRUE])
    /\ UNCHANGED << store, purchase_plans, purchase_plan_items, role, faulted, nops >>

\* handleDeleteItem(itemId) on a row of the list the page holds.
handleDeleteItem(s, itemId) ==
    /\ ShowsDraft(s)
    /\ \E k \in DOMAIN planItems[s] : planItems[s][k].id = itemId
    /\ Start(s, "item_delete",
             [Begin("item_delete") EXCEPT
                 !.plan_id = currentPlan[s].id,
                 !.plan_items = planItems[s],
                 !.item = PlanItemRow(itemId, currentPlan[s].id, 0, "", 0, 0)])

\* .from("purchase_plan_items").delete().eq("id", itemId)
ItemDelete(s) ==
    /\ pc[s] = "item_delete"
    /\ purchase_plan_items' = SelectSeq(purchase_plan_items, LAMBDA r : r.id # op[s].item.id)
    /\ Goto(s, "item_delete_total",
            [op[s] EXCEPT !.from_status = purchase_plans[op[s].plan_id].status,
                          !.wrote_plan = purchase_plan_items' # purchase_plan_items])
    /\ UNCHANGED << store, purchase_plans, role, currentPlan, planItems, faulted, nops >>

\* newTotalCost: the held list without the deleted row.
newTotalCost(o) == PlanCost(SelectSeq(o.plan_items, LAMBDA item : item.id # o.item.id))

\* .from("purchase_plans").update({ total_cost: newTotalCost }), the success
\* toast, and the item list is fetched again; currentPlan is left as it was.
ItemDeleteUpdateTotal(s) ==
    /\ pc[s] = "item_delete_total"
    /\ purchase_plans' = IF purchase_plans[op[s].plan_id].id # 0
                         THEN [purchase_plans EXCEPT ![op[s].plan_id].total_cost = newTotalCost(op[s])]
                         ELSE purchase_plans
    /\ planItems' = [planItems EXCEPT ![s] = fetchPlanItems(s, op[s].plan_id)]
    /\ Goto(s, "idle", [op[s] EXCEPT !.outcome = "success", !.success_toast = TRUE])
    /\ UNCHANGED << store, purchase_plan_items, role, currentPlan, faulted, nops >>

\* handlePlanSubmit(data) with isEditingPlan: the form opened by "Edit".
handlePlanSubmit(s, name) ==
    /\ ShowsDraft(s)
    /\ Start(s, "plan_edit",
             [Begin("plan_edit") EXCEPT !.plan_id = currentPlan[s].id,
                                        !.plan_name = name])

\* .update({ name, planned_date, notes }).eq("id", currentPlan.id).select().single(),
\* then setCurrentPlan(result) and fetchPlanItems(result.id).
PlanEditUpdate(s) ==
    /\ pc[s] = "plan_edit"
    /\ purchase_plans[op[s].plan_id].id # 0
    /\ purchase_plans' = [purchase_plans EXCEPT ![op[s].plan_id].name = op[s].plan_name]
    /\ currentPlan' = [currentPlan EXCEPT ![s] = purchase_plans'[op[s].plan_id]]
    /\ planItems' = [planItems EXCEPT ![s] = fetchPlanItems(s, op[s].plan_id)]
    /\ Goto(s, "idle",
            [op[s] EXCEPT !.from_status = purchase_plans[op[s].plan_id].status,
                          !.wrote_plan = TRUE, !.outcome = "success",
                          !.success_toast = TRUE])
    /\ UNCHANGED << store, purchase_plan_items, role, faulted, nops >>

\* The update of total_cost, or the re-select of the plan, returns an error:
\* neither handler reads the result of these requests.
ItemRequestFails(s) ==
    /\ pc[s] \in {"item_total", "item_refresh", "item_delete_total"}
    /\ LET o == [op[s] EXCEPT !.fault = TRUE, !.ignored_errors = Append(@, pc[s])]
       IN IF pc[s] = "item_total"
          THEN Goto(s, "item_refresh", o) /\ UNCHANGED planItems
          ELSE /\ Goto(s, "idle", [o EXCEPT !.outcome = "success", !.success_toast = TRUE])
               /\ planItems' = [planItems EXCEPT ![s] = fetchPlanItems(s, o.plan_id)]
    /\ faulted' = TRUE
    /\ UNCHANGED << store, purchase_plans, purchase_plan_items, role, currentPlan, nops >>

\* ------------------------------------------------ failures of a request
\* The pending request returns an error (every request of these handlers is
\* followed by `if (error) throw error`); the select of onSubmit returns no row.
RequestFails(s) ==
    /\ pc[s] \notin {"idle", "plan_stock", "plan_txn", "status_refresh",
                     "item_total", "item_refresh", "item_delete_total"}
    /\ pc' = [pc EXCEPT ![s] = "idle"]
    /\ op' = [op EXCEPT ![s].outcome = "error", ![s].fault = TRUE,
                        ![s].error = IF pc[s] = "create_select" THEN "TypeError"
                                                               ELSE "StoreError"]
    /\ faulted' = TRUE
    /\ UNCHANGED << store, role, planner, cache, nops >>

\* The session is closed while the handler is between two requests: the
\* handler's locals are gone, what it wrote stays in the store.
Abandon(s) ==
    /\ pc[s] # "idle"
    /\ pc' = [pc EXCEPT ![s] = "idle"]
    /\ op' = [op EXCEPT ![s] = NoOp]
    /\ faulted' = TRUE
    /\ UNCHANGED << store, role, planner, cache, nops >>

\* ------------------------------------------------------------------- Next
Next ==
    \/ \E s \in Sessions : fetchProducts(s)
    \/ \E s \in Sessions, name \in Names, k \in 0 .. MaxQty : CreateSubmit(s, name, k)
    \/ \E s \in Sessions : CreateInsertProduct(s)
    \/ \E s \in Sessions : CreateSelect(s)
    \/ \E s \in Sessions : CreateInsertTxn(s)
    \/ \E s \in Sessions, pid \in ProductIds, n \in 0 .. MaxStock : EditSubmit(s, pid, n)
    \/ \E s \in Sessions : EditUpdate(s)
    \/ \E s \in Sessions : EditInsertTxn(s)
    \/ \E s \in Sessions, pid \in ProductIds, q \in Quantities : RefillSubmit(s, pid, q)
    \/ \E s \in Sessions : RefillUpdate(s)
    \/ \E s \in Sessions : RefillInsertTxn(s)
    \/ \E s \in Sessions, c \in Customers, items \in SaleItemLists : SaleSubmit(s, c, items)
    \/ \E s \in Sessions : SaleInsertSale(s)
    \/ \E s \in Sessions : SaleInsertItems(s)
    \/ \E s \in Sessions : SaleInsertTxn(s)
    \/ \E s \in Sessions : SaleDecreaseStock(s)
    \/ \E s \in Sessions : SaleDecreaseStockRefused(s)
    \/ \E s \in Sessions, pid \in ProductIds : DeleteSubmit(s, pid)
    \/ \E s \in Sessions : DeleteCheck(s)
    \/ \E s \in Sessions : DeleteTxns(s)
    \/ \E s \in Sessions : DeleteProductRow(s)
    \/ \E s \in Sessions : RequestFails(s)
    \/ \E s \in Sessions : Abandon(s)

Spec == Init /\ [][Next]_vars

\* ------------------------------------------------- the purchase planner
\* Both sessions have the planner open on a plan whose items are one bound to
\* product 1 and one free-text, fetched in either order, or the bound one alone.
BoundItem == PlanItemRow(1, 1, 1, "A", 1, 2)

FreeItem == PlanItemRow(2, 1, 0, "Bags", 1, 1)

PlannerOpen(roles) ==
    /\ products = [p \in ProductIds |->
                     IF p = 1 THEN ProductRow("A", InitStock) ELSE NoProduct]
    /\ next_product_id = 2
    /\ inventory_transactions = << Txn(1, InitStock, "in", "Initial stock") >>
    /\ sales = << >>
    /\ sale_items = << >>
    /\ purchase_plan_items \in {<< BoundItem, FreeItem >>, << FreeItem, BoundItem >>,
                                << BoundItem >>}
    /\ \E status \in {"draft", "scheduled"} :
          purchase_plans = [p \in PlanIds |->
                              IF p = 1
                              THEN PlanRow(p, "P", status, PlanCost(purchase_plan_items))
                              ELSE NoPlan]
    /\ role = roles
    /\ currentPlan = [s \in Sessions |-> purchase_plans[1]]
    /\ planItems = [s \in Sessions |-> fetchPlanItems(s, 1)]
    /\ cache = [s \in Sessions |-> products]
    /\ pc = [s \in Sessions |-> "idle"]
    /\ op = [s \in Sessions |-> NoOp]
    /\ initial_stock = [p \in ProductIds |-> IF p = 1 THEN InitStock ELSE 0]
    /\ stock_writes = [p \in ProductIds |-> 0]
    /\ faulted = FALSE
    /\ nops = 0

InitPlans == PlannerOpen([s \in Sessions |-> "admin"])

NextPlans ==
    \/ \E s \in Sessions : fetchProducts(s)
    \/ \E s \in Sessions, plan \in PlanIds : handleSelectPlan(s, plan)
    \/ \E s \in Sessions, status \in Statuses : updatePlanStatus(s, status)
    \/ \E s \in Sessions : StatusUpdate(s)
    \/ \E s \in Sessions : PlanStock(s)
    \/ \E s \in Sessions : PlanInsertTxn(s)
    \/ \E s \in Sessions : StatusRefresh(s)
    \/ \E s \in Sessions : PlanRequestFails(s)
    \/ \E s \in Sessions, pid \in ProductIds : DeleteSubmit(s, pid)
    \/ \E s \in Sessions : DeleteCheck(s)
    \/ \E s \in Sessions : DeleteTxns(s)
    \/ \E s \in Sessions : DeleteProductRow(s)
    \/ \E s \in Sessions : RequestFails(s)
    \/ \E s \in Sessions : Abandon(s)

SpecPlans == InitPlans /\ [][NextPlans]_vars

\* ------------------------------------------- editing a plan and its items
NextItems ==
    \/ \E s \in Sessions, plan \in PlanIds : handleSelectPlan(s, plan)
    \/ \E s \in Sessions, status \in Statuses : updatePlanStatus(s, status)
    \/ \E s \in Sessions : StatusUpdate(s)
    \/ \E s \in Sessions : PlanStock(s)
    \/ \E s \in Sessions : PlanInsertTxn(s)
    \/ \E s \in Sessions : StatusRefresh(s)
    \/ \E s \in Sessions : PlanRequestFails(s)
    \/ \E s \in Sessions, pid \in 0 .. MaxProducts, qty \in PlanQuantities, price \in PlanPrices : handlePlanItemSubmit(s, ItemForm(s, pid, qty, price))
    \/ \E s \in Sessions : ItemInsert(s)
    \/ \E s \in Sessions : ItemUpdateTotal(s)
    \/ \E s \in Sessions : ItemRefresh(s)
    \/ \E s \in Sessions, itemId \in 1 .. MaxOps + 2 : handleDeleteItem(s, itemId)
    \/ \E s \in Sessions : ItemDelete(s)
    \/ \E s \in Sessions : ItemDeleteUpdateTotal(s)
    \/ \E s \in Sessions, name \in PlanNames : handlePlanSubmit(s, name)
    \/ \E s \in Sessions : PlanEditUpdate(s)
    \/ \E s \in Sessions : ItemRequestFails(s)
    \/ \E s \in Sessions : RequestFails(s)
    \/ \E s \in Sessions : Abandon(s)

SpecItems == InitPlans /\ [][NextItems]_vars

\* ---------------------------------------------- a session without the admin role
\* user_roles.role is 'admin' or 'user'; here s2's user is a plain user.
InitRoles == PlannerOpen([s \in Sessions |-> IF s = "s2" THEN "user" ELSE "admin"])

NextRoles ==
    \/ \E s \in Sessions : fetchProducts(s)
    \/ \E s \in Sessions, pid \in ProductIds, n \in 0 .. MaxStock : EditSubmit(s, pid, n)
    \/ \E s \in Sessions : EditUpdate(s)
    \/ \E s \in Sessions : EditInsertTxn(s)
    \/ \E s \in Sessions, pid \in ProductIds, q \in Quantities : RefillSubmit(s, pid, q)
    \/ \E s \in Sessions : RefillUpdate(s)
    \/ \E s \in Sessions : RefillInsertTxn(s)
    \/ \E s \in Sessions, plan \in PlanIds : handleSelectPlan(s, plan)
    \/ \E s \in Sessions, status \in Statuses : updatePlanStatus(s, status)
    \/ \E s \in Sessions : StatusUpdate(s)
    \/ \E s \in Sessions : PlanStock(s)
    \/ \E s \in Sessions : PlanInsertTxn(s)
    \/ \E s \in Sessions : StatusRefresh(s)
    \/ \E s \in Sessions : PlanRequestFails(s)
    \/ \E s \in Sessions : RequestFails(s)
    \/ \E s \in Sessions : Abandon(s)

SpecRoles == InitRoles /\ [][NextRoles]_vars

\* ------------------------------------------------------ priced sales
\* Sales of a product in stock, with the prices and discounts of a till.
TillQuantities == {3}

TillPrices == {3, 100}

TillDiscounts == {10}

TillItemInputs ==
    { SaleItemInput(pid, qty, price, discount) :
        pid \in ProductIds, qty \in TillQuantities,
        price \in TillPrices, discount \in TillDiscounts }

TillItemLists == UNION { [1 .. n -> TillItemInputs] : n \in 1 .. MaxItems }

InitTill ==
    /\ products = [p \in ProductIds |-> IF p = 1 THEN ProductRow("A", 10) ELSE NoProduct]
    /\ next_product_id = 2
    /\ inventory_transactions = << Txn(1, 10, "in", "Initial stock") >>
    /\ sales = << >>
    /\ sale_items = << >>
    /\ purchase_plans = [p \in PlanIds |-> NoPlan]
    /\ purchase_plan_items = << >>
    /\ role = [s \in Sessions |-> "admin"]
    /\ currentPlan = [s \in Sessions |-> NoPlan]
    /\ planItems = [s \in Sessions |-> << >>]
    /\ cache = [s \in Sessions |-> products]
    /\ pc = [s \in Sessions |-> "idle"]
    /\ op = [s \in Sessions |-> NoOp]
    /\ initial_stock = [p \in ProductIds |-> IF p = 1 THEN 10 ELSE 0]
    /\ stock_writes = [p \in ProductIds |-> 0]
    /\ faulted = FALSE
    /\ nops = 0

NextTill ==
    \/ \E s \in Sessions : fetchProducts(s)
    \/ \E s \in Sessions, c \in Customers, items \in TillItemLists : SaleSubmit(s, c, items)
    \/ \E s \in Sessions : SaleInsertSale(s)
    \/ \E s \in Sessions : SaleInsertItems(s)
    \/ \E s \in Sessions : SaleInsertTxn(s)
    \/ \E s \in Sessions : SaleDecreaseStock(s)
    \/ \E s \in Sessions : SaleDecreaseStockRefused(s)
    \/ \E s \in Sessions : RequestFails(s)
    \/ \E s \in Sessions : Abandon(s)

SpecTill == InitTill /\ [][NextTill]_vars


\* ================================================================= claims
Quiescent == \A s \in Sessions : pc[s] = "idle"

Finished(s, kind) == pc[s] = "idle" /\ op[s].kind = kind /\ op[s].outcome \in {"success", "error"}

\* The stock the ledger accounts for: the stock the row was created with plus
\* the 'in' and minus the 'out' quantities logged after creation.
IsMovement(t) == t.notes # "Initial stock"

LedgerStock(pid) ==
    LET moves == SelectSeq(TxnsOf(pid), IsMovement)
    IN initial_stock[pid] + SumSeq([k \in DOMAIN moves |-> Signed(moves[k])])

SaleRows(id) == SelectSeq(sales, LAMBDA r : r.id = id)

SaleItemRows(id) == SelectSeq(sale_items, LAMBDA r : r.sale_id = id)

\* The 'out' transactions a sale of these items owes, in item order.
OutTxnsFor(o) ==
    [k \in DOMAIN o.items |->
        Txn(o.items[k].product_id, o.items[k].quantity, "out", "Sale: " \o o.customer_name)]

DecsFor(o) ==
    [k \in DOMAIN o.decs |-> [product_id |-> o.decs[k].product_id,
                              quantity |-> o.decs[k].quantity]]

ItemsMoved(o) ==
    [k \in DOMAIN o.items |-> [product_id |-> o.items[k].product_id,
                               quantity |-> o.items[k].quantity]]

SaleWroteAll(o) ==
    /\ Len(SaleRows(o.sale_id)) = 1
    /\ Len(SaleItemRows(o.sale_id)) = Len(o.items)
    /\ o.wrote_txns = OutTxnsFor(o)
    /\ DecsFor(o) = ItemsMoved(o)

SaleWroteNothing(o) ==
    /\ ~ o.wrote_sale
    /\ o.wrote_items = 0
    /\ o.wrote_txns = << >>
    /\ o.decs = << >>

\* C1: every product's current_stock equals its initial stock plus the logged
\* 'in' quantities minus the logged 'out' quantities.  The claim requires it in
\* every state; it is stated here for the states it is least demanding in, those
\* in which every handler has returned and no request has ever failed.
C1_StockEqualsLedger ==
    (Quiescent /\ ~ faulted) =>
        \A p \in ProductIds : products[p].exists => products[p].current_stock = LedgerStock(p)

\* C2: a record_sale call that has returned has written its Sale, all its
\* SaleItems, all its 'out' transactions and all its decrements, or none of
\* them.  The claim covers runs in which a request fails or the caller leaves;
\* it is stated here for the calls none of whose requests was failed.
C2_SaleAllOrNothing ==
    \A s \in Sessions :
       (Finished(s, "sale") /\ ~ op[s].fault) =>
          SaleWroteAll(op[s]) \/ SaleWroteNothing(op[s])

\* C3: current_stock is never negative, and a call that fails with
\* InsufficientStock has left sales, sale_items, inventory_transactions and
\* current_stock as they were.
C3_InsufficientStockHasNoEffect ==
    /\ \A p \in ProductIds : products[p].current_stock >= 0
    /\ \A s \in Sessions :
          (pc[s] = "idle" /\ op[s].error = "InsufficientStock") => SaleWroteNothing(op[s])

AsksTooMuch(o) ==
    \E k \in DOMAIN o.items : o.items[k].quantity > o.stock0[o.items[k].product_id]

\* C5: a record_sale call that asks, for some item, more than the product's
\* current_stock at the time of the call writes nothing and is rejected with
\* InsufficientStock.
C5_OverdrawnSaleRejectedBeforeWrite ==
    \A s \in Sessions :
       (op[s].kind = "sale" /\ AsksTooMuch(op[s])) =>
          /\ SaleWroteNothing(op[s])
          /\ Finished(s, "sale") => op[s].error = "InsufficientStock"

\* C6: a record_sale call whose stock movement is refused, after it has inserted
\* its Sale and its SaleItems, leaves neither the Sale nor its SaleItems in the
\* store and reports PartialSaleFailure.
C6_FailedSaleRolledBack ==
    \A s \in Sessions :
       (Finished(s, "sale") /\ op[s].outcome = "error" /\ ~ op[s].fault
          /\ op[s].wrote_sale /\ op[s].wrote_items = Len(op[s].items)) =>
          /\ SaleRows(op[s].sale_id) = << >>
          /\ SaleItemRows(op[s].sale_id) = << >>
          /\ op[s].error = "PartialSaleFailure"

\* C7: the stock a refill writes is the store's stock at the time of the write
\* plus the refilled quantity.
C7_RefillAddsToStoreStock ==
    \A s \in Sessions :
       (op[s].kind = "refill" /\ pc[s] = "refill_txn") =>
          op[s].new_stock = op[s].store_stock + op[s].quantity

\* C8: an edit that set the stock to n while the store held s # n has appended
\* exactly one transaction, of |n - s| units, 'in' if n > s and 'out' if n < s.
C8_EditLogsStoreDelta ==
    \A s \in Sessions :
       (Finished(s, "edit") /\ op[s].outcome = "success"
          /\ op[s].quantity # op[s].store_stock) =>
          op[s].wrote_txns =
             << Txn(op[s].product_id, Abs(op[s].quantity - op[s].store_stock),
                    IF op[s].quantity > op[s].store_stock THEN "in" ELSE "out",
                    "Stock adjustment during product edit") >>

\* C9: an edit whose new stock value equals the stock the store held when the
\* edit was applied has appended no transaction and left the stock as it was.
C9_EditToSameStockLogsNothing ==
    \A s \in Sessions :
       (Finished(s, "edit") /\ op[s].quantity = op[s].store_stock) =>
          op[s].wrote_txns = << >> /\ op[s].new_stock = op[s].store_stock

InitialTxnsOf(pid) == SelectSeq(TxnsOf(pid), LAMBDA t : t.notes = "Initial stock")

\* C10: a create_product call with initial stock k that has inserted its
\* product and returned, none of its requests having been failed, has created
\* the product with current_stock k and, if k > 0, appended exactly one
\* transaction, (new product, in, k, 'Initial stock'), the only 'Initial stock'
\* entry of that product; if k = 0 it appended none.
C10_CreateLogsInitialStock ==
    \A s \in Sessions :
       (Finished(s, "create") /\ op[s].wrote_product /\ ~ op[s].fault) =>
          LET id == op[s].new_id
              k == op[s].quantity
              want == IF k > 0 THEN << Txn(id, k, "in", "Initial stock") >> ELSE << >>
          IN /\ op[s].wrote_txns = want
             /\ products[id].exists => InitialTxnsOf(id) = want
             /\ (products[id].exists /\ stock_writes[id] = 0) =>
                   products[id].current_stock = k

\* C13: a delete_product whose sales-history check finds at least one SaleItem
\* of the product is rejected with HasSalesHistory and has deleted neither the
\* product nor any of its InventoryTransactions.
C13_DeleteWithSalesRejected ==
    \A s \in Sessions :
        (op[s].kind = "delete" /\ op[s].sale_count > 0) =>
            /\ pc[s] = "idle"
            /\ op[s].outcome = "rejected"
            /\ op[s].error = "HasSalesHistory"
            /\ op[s].deleted_txns = << >>
            /\ ~ op[s].deleted_product

C13_Witness ==
    \E s \in Sessions :
        /\ op[s].kind = "delete" /\ op[s].sale_count > 0
        /\ op[s].outcome = "rejected"
        /\ SaleCount(op[s].product_id) > 0

IsPrefix(a, b) == Len(a) <= Len(b) /\ \A k \in DOMAIN a : b[k] = a[k]

AllowedTransitions ==
    {<< "draft", "scheduled" >>, << "scheduled", "draft" >>,
     << "scheduled", "completed" >>, << "scheduled", "cancelled" >>}

\* C11: every step that changes a plan's stored status takes it along one of
\* draft->scheduled, scheduled->draft, scheduled->completed, scheduled->cancelled;
\* in particular a stored completed or cancelled status never changes, also
\* when the request comes from a session holding a stale copy of the plan.
C11_StatusChangesOnlyAlongTransitions ==
    [][\A p \in PlanIds :
          purchase_plans'[p].status # purchase_plans[p].status =>
              << purchase_plans[p].status, purchase_plans'[p].status >> \in AllowedTransitions]_vars

\* The items of a completion that reference a product, in list order.
BoundItems(o) == SelectSeq(o.plan_items, LAMBDA item : item.product_id # 0)

PlanTxnsFor(o) ==
    [k \in DOMAIN BoundItems(o) |->
        Txn(BoundItems(o)[k].product_id, BoundItems(o)[k].quantity, "in",
            "Purchase from plan: " \o o.plan_name)]

\* C12: a finished scheduled->completed call has inserted exactly one 'in'
\* InventoryTransaction per item with a product reference (the item's quantity,
\* notes 'Purchase from plan: <name>'), has raised the stock of each of those
\* products, has written nothing for the free-text items, and has ended well.
C12_CompletionAppliesEveryBoundItem ==
    \A s \in Sessions :
        (/\ Finished(s, "status") /\ op[s].status = "completed"
         /\ op[s].from_status = "scheduled" /\ ~ op[s].fault) =>
            /\ op[s].outcome = "success"
            /\ op[s].wrote_txns = PlanTxnsFor(op[s])
            /\ op[s].stock_raised = [k \in DOMAIN BoundItems(op[s]) |->
                                        BoundItems(op[s])[k].product_id]

WriteErrors(o) == SelectSeq(o.ignored_errors, LAMBDA e : e # "status_refresh")

\* C16: a call that ended with its success report and no error report had no
\* write (stock update, InventoryTransaction insert) that returned an error.
C16_NoSuccessAfterWriteError ==
    \A s \in Sessions :
        (pc[s] = "idle" /\ op[s].outcome = "success") => WriteErrors(op[s]) = << >>

\* The completion reached an item whose product row was gone: its transaction
\* insert was refused by the reference to products.
MetMissingProduct(o) ==
    \E k \in DOMAIN o.ignored_errors : o.ignored_errors[k] = "inventory_transactions.insert"

RowTotals(rows) == [k \in DOMAIN rows |-> rows[k].quantity * rows[k].price - rows[k].discount]

RowDiscounts(rows) == [k \in DOMAIN rows |-> rows[k].discount]

\* A finished, successful sale of 3 units at price 100 with discount 10 out of
\* a stock of 10 that no other call wrote meanwhile.
TillScenario(s) ==
    /\ Finished(s, "sale") /\ op[s].outcome = "success"
    /\ op[s].items = << SaleItemInput(1, 3, 100, 10) >>
    /\ op[s].stock0[1] = 10
    /\ stock_writes[1] = op[s].writes0[1] + 1

\* C14: every Sale whose SaleItems are stored has total_amount equal to the sum
\* of quantity x price - discount over them and discount_amount equal to the
\* sum of their discounts; the sale of 3 at 100 with discount 10 has
\* total_amount 290 and takes the stock from 10 to 7.
C14_SaleTotals ==
    /\ \A k \in DOMAIN sales :
          SaleItemRows(sales[k].id) # << >> =>
              /\ sales[k].total_amount = SumSeq(RowTotals(SaleItemRows(sales[k].id)))
              /\ sales[k].discount_amount = SumSeq(RowDiscounts(SaleItemRows(sales[k].id)))
    /\ \A s \in Sessions :
          TillScenario(s) =>
              /\ SaleRows(op[s].sale_id)[1].total_amount = 290
              /\ SaleRows(op[s].sale_id)[1].discount_amount = 10
              /\ products[1].current_stock = 7

C14_Witness ==
    \E s \in Sessions :
        /\ TillScenario(s)
        /\ SaleRows(op[s].sale_id)[1].total_amount = 290
        /\ products[1].current_stock = 7

\* C15: a call of a session whose role is 'user' that asks for a product update
\* (refill_stock, edit_product, plan completion) is stopped before any write:
\* it appends no InventoryTransaction.
C15_DeniedUpdateWritesNothing ==
    \A s \in Sessions :
        (/\ role[s] = "user"
         /\ \/ op[s].kind \in {"refill", "edit"}
            \/ op[s].kind = "status" /\ op[s].status = "completed") =>
            op[s].wrote_txns = << >>

\* The 'in' movement a plan's item owes once the plan is completed.
PlanMovement(plan, item) ==
    Txn(item.product_id, item.quantity, "in", "Purchase from plan: " \o purchase_plans[plan].name)

Recorded(t) == \E j \in DOMAIN inventory_transactions : inventory_transactions[j] = t

StoredBoundItems(plan) == SelectSeq(PlanItemsOf(plan), LAMBDA item : item.product_id # 0)

\* C21: whenever no handler is running, and even if no request has failed, a
\* plan stored as completed has the 'in' movement of every one of its
\* product-referencing items recorded, and a plan with such a movement
\* recorded is stored as completed.
C21_CompletedIffMovementsRecorded ==
    (Quiescent /\ ~ faulted) =>
        \A p \in PlanIds :
            purchase_plans[p].id # 0 =>
                LET items == StoredBoundItems(p)
                IN /\ purchase_plans[p].status = "completed" =>
                        \A k \in DOMAIN items : Recorded(PlanMovement(p, items[k]))
                   /\ (\E k \in DOMAIN items : Recorded(PlanMovement(p, items[k]))) =>
                        purchase_plans[p].status = "completed"

\* A step of a session's status request for draft, scheduled or cancelled.
PlainStatusStep(s) ==
    /\ op[s].kind = "status" /\ op[s].status \in {"draft", "scheduled", "cancelled"}
    /\ pc[s] # "idle"
    /\ pc'[s] # pc[s]

\* C24: every step of a request for draft, scheduled or cancelled leaves all
\* products, the InventoryTransactions, the plan items and the plan's
\* total_cost unchanged.
C24_PlainTransitionsChangeOnlyStatus ==
    [][\A s \in Sessions :
          PlainStatusStep(s) =>
              /\ UNCHANGED << products, inventory_transactions, purchase_plan_items >>
              /\ \A p \in PlanIds :
                    purchase_plans'[p].total_cost = purchase_plans[p].total_cost]_vars

C24_Witness ==
    \E s \in Sessions :
        /\ Finished(s, "status") /\ op[s].outcome = "success"
        /\ << op[s].from_status, op[s].status >> \in
              {<< "draft", "scheduled" >>, << "scheduled", "draft" >>,
               << "scheduled", "cancelled" >>}
        /\ purchase_plans[op[s].plan_id].status = op[s].status

PlanTxnCount(plan, item) ==
    Len(SelectSeq(inventory_transactions, LAMBDA t : t = PlanMovement(plan, item)))

\* C27: whatever status requests are made, each product-referencing item of a
\* plan has at most one 'in' InventoryTransaction of that plan.
C27_PlanStockAppliedOnce ==
    \A p \in PlanIds :
        purchase_plans[p].id # 0 =>
            \A k \in DOMAIN StoredBoundItems(p) :
                PlanTxnCount(p, StoredBoundItems(p)[k]) <= 1

TotalAsked(o, pid) ==
    SumSeq([k \in DOMAIN o.items |->
               IF o.items[k].product_id = pid THEN o.items[k].quantity ELSE 0])

\* Each line fits the stock the store held when the sale was submitted, but
\* the lines of one product together exceed it.
LinesExceedTogether(o) ==
    \E pid \in ProductIds :
        /\ \A k \in DOMAIN o.items :
              o.items[k].product_id = pid => o.items[k].quantity <= o.stock0[pid]
        /\ TotalAsked(o, pid) > o.stock0[pid]

\* C28: a record_sale call whose lines of one product each fit its
\* current_stock but together exceed it creates no record, and no stock is
\* ever negative.
C28_SplitLinesOverdrawRejected ==
    /\ \A p \in ProductIds : products[p].current_stock >= 0
    /\ \A s \in Sessions :
          (op[s].kind = "sale" /\ LinesExceedTogether(op[s])) =>
              SaleWroteNothing(op[s])

\* C29: a create_product call with a positive initial stock that has stored its
\* product and returned, none of its requests having been failed, has written
\* an 'Initial stock' InventoryTransaction, and every transaction it wrote
\* references the product it created, whatever other products carry the name.
C29_InitialTxnReferencesCreatedProduct ==
    \A s \in Sessions :
        (/\ Finished(s, "create") /\ op[s].wrote_product
         /\ op[s].quantity > 0 /\ ~ op[s].fault) =>
            /\ op[s].wrote_txns # << >>
            /\ \A k \in DOMAIN op[s].wrote_txns :
                  /\ op[s].wrote_txns[k].product_id = op[s].new_id
                  /\ op[s].wrote_txns[k].notes = "Initial stock"

OverDiscounted(item) == item.discount > item.quantity * item.price

\* C25: a record_sale call with an item whose discount exceeds quantity x unit
\* price writes nothing; every stored SaleItem has discount <= price x quantity
\* and every stored Sale has total_amount >= 0.
C25_OverDiscountRejectedBeforeWrite ==
    /\ \A s \in Sessions :
          (op[s].kind = "sale" /\ \E k \in DOMAIN op[s].items : OverDiscounted(op[s].items[k])) =>
              SaleWroteNothing(op[s])
    /\ \A k \in DOMAIN sale_items : ~ OverDiscounted(sale_items[k])
    /\ \A k \in DOMAIN sales : sales[k].total_amount >= 0

\* C22: whenever no handler is running and no request has failed, every plan's
\* stored total_cost is the sum of quantity * unit_price over the rows of
\* purchase_plan_items stored for it.
C22_TotalCostMatchesItems ==
    (Quiescent /\ ~ faulted) =>
        \A p \in PlanIds :
            purchase_plans[p].id # 0 =>
                purchase_plans[p].total_cost = PlanCost(PlanItemsOf(p))

PlanEditKinds == {"item_add", "item_delete", "plan_edit"}

\* C23: an item addition, an item removal or an edit of the plan's fields that
\* wrote to the store found the plan's stored status to be draft when it wrote.
C23_ModifiedOnlyWhileDraft ==
    \A s \in Sessions :
        (op[s].kind \in PlanEditKinds /\ op[s].wrote_plan) =>
            op[s].from_status = "draft"

====
